---- MODULE Spec2Model ----
(***************************************************************************)
(* Model of freeboard.py: the command `freeboard LAT LON [--ari] [--duration]*)
(* [--units]`, its fetch step scrape_precip_data and its table lookup        *)
(* get_design_storm_event.                                                   *)
(*                                                                           *)
(* Conventions of the model                                                  *)
(*  - Coordinates are fixed-point integers in 1/10000 degree                 *)
(*    (39.7205 is 397205, -66.9 is -669000).                                 *)
(*  - Precipitation depths are integers in 1/100 of the unit (3.45 is 345).  *)
(*  - A response body is a sequence of glyphs: "Q" stands for the twelve     *)
(*    characters `quantiles = `, "NL" for a line break, "x" for any other    *)
(*    letter; every other glyph is the character itself.                     *)
(*  - A Python value is a record [k, n, s, items]: k is the Python type,     *)
(*    n the number, s the characters of a string, items the elements.        *)
(*  - A failure is named by the Python exception that the code lets escape.  *)
(***************************************************************************)
EXTENDS Integers, Sequences, FiniteSets, TLC

----------------------------------------------------------------------------
(* Python values *)

PyNone == [k |-> "None", n |-> 0, s |-> <<>>, items |-> <<>>]

PyNum(n) == [k |-> "num", n |-> n, s |-> <<>>, items |-> <<>>]

PyStr(s) == [k |-> "str", n |-> 0, s |-> s, items |-> <<>>]

PyName(s) == [k |-> "name", n |-> 0, s |-> s, items |-> <<>>]

PyList(items) == [k |-> "list", n |-> 0, s |-> <<>>, items |-> items]

PyTuple(items) == [k |-> "tuple", n |-> 0, s |-> <<>>, items |-> items]

PySet(items) == [k |-> "set", n |-> 0, s |-> <<>>, items |-> items]

PyPair(key, val) == [k |-> "pair", n |-> 0, s |-> <<>>, items |-> <<key, val>>]

PyDict(pairs) == [k |-> "dict", n |-> 0, s |-> <<>>, items |-> pairs]

----------------------------------------------------------------------------
(* Module constants of freeboard.py *)

conus_north == 490000

conus_south == 245000

conus_east == -669000

conus_west == -1250000

duration_choices ==
    << "0.5-day", "1-day", "2-day", "3-day", "4-day", "7-day", "10-day",
       "20-day", "30-day", "45-day", "60-day" >>

ari_choices ==
    << "1-yr", "2-yr", "5-yr", "10-yr", "25-yr", "50-yr", "100-yr",
       "200-yr", "500-yr", "1000-yr" >>

units_choices == << "inch", "mm" >>

default_ari == "25-yr"

default_duration == "1-day"

default_units == "inch"

Range(seq) == { seq[i] : i \in 1..Len(seq) }

----------------------------------------------------------------------------
\* re.search(r"quantiles = (.*);", text): the leftmost "Q" that has a ";"
\* after it on its own line; the group is greedy, so it runs to the LAST
\* ";" of that line ("." matches anything but a line break).

LineEnd(text, i) ==
    IF \E j \in i..Len(text) : text[j] = "NL"
    THEN (CHOOSE j \in i..Len(text) :
             /\ text[j] = "NL"
             /\ \A m \in i..(j - 1) : text[m] # "NL") - 1
    ELSE Len(text)

MatchStarts(text) ==
    { i \in 1..Len(text) :
        /\ text[i] = "Q"
        /\ \E j \in (i + 1)..LineEnd(text, i + 1) : text[j] = ";" }

LastSemicolon(text, i) ==
    CHOOSE j \in (i + 1)..LineEnd(text, i + 1) :
        /\ text[j] = ";"
        /\ \A m \in (j + 1)..LineEnd(text, i + 1) : text[m] # ";"

\* Variant: the pattern without its ";", which matches to the end of the line
re_search_unterminated(text) ==
    IF ~ \E i \in 1..Len(text) : text[i] = "Q"
    THEN [matched |-> FALSE, group1 |-> <<>>]
    ELSE LET i == CHOOSE a \in 1..Len(text) :
                      /\ text[a] = "Q"
                      /\ \A b \in 1..(a - 1) : text[b] # "Q"
         IN  [matched |-> TRUE,
              group1  |-> SubSeq(text, i + 1, LineEnd(text, i + 1))]

re_search(text) ==
    IF MatchStarts(text) = {}
    THEN [matched |-> FALSE, group1 |-> <<>>]
    ELSE LET i == CHOOSE a \in MatchStarts(text) :
                      \A b \in MatchStarts(text) : a <= b
         IN  [matched |-> TRUE,
              group1  |-> SubSeq(text, i + 1, LastSemicolon(text, i) - 1)]

----------------------------------------------------------------------------
\* ast.literal_eval(text): Python's literal grammar over the glyphs of the
\* model (numbers, quoted strings, names, lists, dicts, sets, a bare
\* top-level tuple).  A text the grammar rejects is a SyntaxError; a parsed
\* text that holds a name is a ValueError (malformed node); an unhashable
\* set element or dict key is a TypeError.  Everything else is returned.

Digits == { "0", "1", "2", "3", "4", "5", "6", "7", "8", "9" }

DigitVal(c) ==
    CASE c = "0" -> 0 [] c = "1" -> 1 [] c = "2" -> 2 [] c = "3" -> 3
      [] c = "4" -> 4 [] c = "5" -> 5 [] c = "6" -> 6 [] c = "7" -> 7
      [] c = "8" -> 8 [] c = "9" -> 9

Fail == [ok |-> FALSE, v |-> PyNone, next |-> 0]

Ok(v, next) == [ok |-> TRUE, v |-> v, next |-> next]

\* the last index of the run of glyphs from `set` that starts at i
RECURSIVE RunEnd(_, _, _)
RunEnd(t, i, set) ==
    IF i + 1 <= Len(t) /\ t[i + 1] \in set THEN RunEnd(t, i + 1, set) ELSE i

RECURSIVE Decimal(_, _, _, _)
Decimal(t, i, j, acc) ==
    IF i > j THEN acc ELSE Decimal(t, i + 1, j, acc * 10 + DigitVal(t[i]))

\* a decimal integer literal: "0", "00" are legal, "01" is not
ParseNumber(t, i) ==
    LET j == RunEnd(t, i, Digits)
    IN  IF /\ t[i] = "0"
           /\ \E m \in i..j : t[m] # "0"
        THEN Fail
        ELSE Ok(PyNum(Decimal(t, i, j, 0)), j + 1)

\* a quoted string; adjacent strings are concatenated
RECURSIVE ParseString(_, _, _)
ParseString(t, i, acc) ==
    IF ~ \E c \in (i + 1)..Len(t) : t[c] = "'"
    THEN Fail
    ELSE LET c == CHOOSE a \in (i + 1)..Len(t) :
                      /\ t[a] = "'"
                      /\ \A b \in (i + 1)..(a - 1) : t[b] # "'"
             str == acc \o SubSeq(t, i + 1, c - 1)
         IN  IF c + 1 <= Len(t) /\ t[c + 1] = "'"
             THEN ParseString(t, c + 1, str)
             ELSE Ok(PyStr(str), c + 1)

ParseNameToken(t, i) ==
    LET j == RunEnd(t, i, {"x"} \cup Digits)
    IN  Ok(PyName(SubSeq(t, i, j)), j + 1)

RECURSIVE ParseValue(_, _)
RECURSIVE ParseSeq(_, _, _, _)
RECURSIVE ParseDictItems(_, _, _)

\* elements separated by "," up to `close`; a trailing "," is allowed
ParseSeq(t, i, close, acc) ==
    IF i > Len(t) THEN Fail
    ELSE IF t[i] = close THEN Ok(acc, i + 1)
    ELSE LET e == ParseValue(t, i)
         IN  IF ~ e.ok \/ e.next > Len(t) THEN Fail
             ELSE IF t[e.next] = "," THEN ParseSeq(t, e.next + 1, close, Append(acc, e.v))
             ELSE IF t[e.next] = close THEN Ok(Append(acc, e.v), e.next + 1)
             ELSE Fail

\* key ":" value pairs separated by "," up to "}"
ParseDictItems(t, i, acc) ==
    IF i > Len(t) THEN Fail
    ELSE IF t[i] = "}" THEN Ok(acc, i + 1)
    ELSE LET key == ParseValue(t, i)
         IN  IF ~ key.ok \/ key.next > Len(t) \/ t[key.next] # ":" THEN Fail
             ELSE LET val == ParseValue(t, key.next + 1)
                  IN  IF ~ val.ok \/ val.next > Len(t) THEN Fail
                      ELSE IF t[val.next] = ","
                      THEN ParseDictItems(t, val.next + 1,
                                          Append(acc, PyPair(key.v, val.v)))
                      ELSE IF t[val.next] = "}"
                      THEN Ok(Append(acc, PyPair(key.v, val.v)), val.next + 1)
                      ELSE Fail

ParseValue(t, i) ==
    IF i > Len(t) THEN Fail
    ELSE IF t[i] \in Digits THEN ParseNumber(t, i)
    ELSE IF t[i] = "'" THEN ParseString(t, i, <<>>)
    ELSE IF t[i] = "x" THEN ParseNameToken(t, i)
    ELSE IF t[i] = "["
    THEN LET r == ParseSeq(t, i + 1, "]", <<>>)
         IN  IF r.ok THEN Ok(PyList(r.v), r.next) ELSE Fail
    ELSE IF t[i] = "{"
    THEN LET d == ParseDictItems(t, i + 1, <<>>)
             e == ParseSeq(t, i + 1, "}", <<>>)
         IN  IF d.ok THEN Ok(PyDict(d.v), d.next)
             ELSE IF e.ok THEN Ok(PySet(e.v), e.next)
             ELSE Fail
    ELSE Fail

\* the rest of a bare tuple: "1,2" and "1," are tuples
RECURSIVE ParseTupleRest(_, _, _)
ParseTupleRest(t, i, acc) ==
    IF i > Len(t) THEN Ok(PyTuple(acc), i)
    ELSE LET e == ParseValue(t, i)
         IN  IF ~ e.ok THEN Fail
             ELSE IF e.next > Len(t) THEN Ok(PyTuple(Append(acc, e.v)), e.next)
             ELSE IF t[e.next] = "," THEN ParseTupleRest(t, e.next + 1, Append(acc, e.v))
             ELSE Fail

ParseExpression(t) ==
    LET e == ParseValue(t, 1)
    IN  IF ~ e.ok THEN Fail
        ELSE IF e.next > Len(t) THEN e
        ELSE IF t[e.next] = "," THEN ParseTupleRest(t, e.next + 1, <<e.v>>)
        ELSE Fail

RECURSIVE HasName(_)
HasName(v) ==
    \/ v.k = "name"
    \/ \E i \in 1..Len(v.items) : HasName(v.items[i])

RECURSIVE HasUnhashable(_)
HasUnhashable(v) ==
    \/ /\ v.k = "set"
       /\ \E i \in 1..Len(v.items) : v.items[i].k \in {"list", "dict", "set"}
    \/ /\ v.k = "dict"
       /\ \E i \in 1..Len(v.items) :
              v.items[i].items[1].k \in {"list", "dict", "set"}
    \/ \E i \in 1..Len(v.items) : HasUnhashable(v.items[i])

literal_eval(text) ==
    LET e == ParseExpression(text)
    IN  IF ~ e.ok THEN [err |-> "SyntaxError", v |-> PyNone]
        ELSE IF HasName(e.v) THEN [err |-> "ValueError", v |-> PyNone]
        ELSE IF HasUnhashable(e.v) THEN [err |-> "TypeError", v |-> PyNone]
        ELSE [err |-> "", v |-> e.v]

----------------------------------------------------------------------------
\* Python subscription obj[i] for an index i >= 0

DictLookup(pairs, i) ==
    LET hits == { m \in 1..Len(pairs) : pairs[m].items[1] = PyNum(i) }
    IN  IF hits = {} THEN [err |-> "KeyError", v |-> PyNone]
        ELSE LET last == CHOOSE a \in hits : \A b \in hits : b <= a
             IN  [err |-> "", v |-> pairs[last].items[2]]

Subscript(obj, i) ==
    IF obj.k \in {"list", "tuple"}
    THEN IF i < Len(obj.items)
         THEN [err |-> "", v |-> obj.items[i + 1]]
         ELSE [err |-> "IndexError", v |-> PyNone]
    ELSE IF obj.k = "str"
    THEN IF i < Len(obj.s)
         THEN [err |-> "", v |-> PyStr(<<obj.s[i + 1]>>)]
         ELSE [err |-> "IndexError", v |-> PyNone]
    ELSE IF obj.k = "dict" THEN DictLookup(obj.items, i)
    ELSE [err |-> "TypeError", v |-> PyNone]

----------------------------------------------------------------------------
\* get_design_storm_event

\* Variant: the last duration one row too far
duration_rows_shifted ==
    "5-min" :> 0 @@ "10-min" :> 1 @@ "15-min" :> 2 @@ "30-min" :> 3 @@
    "60-min" :> 4 @@ "2-hr" :> 5 @@ "3-hr" :> 6 @@ "6-hr" :> 7 @@
    "0.5-day" :> 8 @@ "1-day" :> 9 @@ "2-day" :> 10 @@ "3-day" :> 11 @@
    "4-day" :> 12 @@ "7-day" :> 13 @@ "10-day" :> 14 @@ "20-day" :> 15 @@
    "30-day" :> 16 @@ "45-day" :> 17 @@ "60-day" :> 19

duration_rows ==
    "5-min" :> 0 @@ "10-min" :> 1 @@ "15-min" :> 2 @@ "30-min" :> 3 @@
    "60-min" :> 4 @@ "2-hr" :> 5 @@ "3-hr" :> 6 @@ "6-hr" :> 7 @@
    "0.5-day" :> 8 @@ "1-day" :> 9 @@ "2-day" :> 10 @@ "3-day" :> 11 @@
    "4-day" :> 12 @@ "7-day" :> 13 @@ "10-day" :> 14 @@ "20-day" :> 15 @@
    "30-day" :> 16 @@ "45-day" :> 17 @@ "60-day" :> 18

ari_cols ==
    "1-yr" :> 0 @@ "2-yr" :> 1 @@ "5-yr" :> 2 @@ "10-yr" :> 3 @@
    "25-yr" :> 4 @@ "50-yr" :> 5 @@ "100-yr" :> 6 @@ "200-yr" :> 7 @@
    "500-yr" :> 8 @@ "1000-yr" :> 9

\* Variant: row and column exchanged
get_design_storm_event_transposed(precip_amounts, ari, duration) ==
    IF duration \notin DOMAIN duration_rows \/ ari \notin DOMAIN ari_cols
    THEN [err |-> "KeyError", v |-> PyNone]
    ELSE LET col == Subscript(precip_amounts, ari_cols[ari])
         IN  IF col.err # "" THEN col
             ELSE Subscript(col.v, duration_rows[duration])

\* Variant: an unknown recurrence interval falls back to the first column
get_design_storm_event_defaulting(precip_amounts, ari, duration) ==
    IF duration \notin DOMAIN duration_rows
    THEN [err |-> "KeyError", v |-> PyNone]
    ELSE LET row == Subscript(precip_amounts, duration_rows[duration])
         IN  IF row.err # "" THEN row
             ELSE Subscript(row.v, IF ari \in DOMAIN ari_cols THEN ari_cols[ari] ELSE 0)

\* precip_amounts[duration_rows[duration]][ari_cols[ari]], evaluated left
\* to right: the row key, the row, the column key, the cell.
get_design_storm_event(precip_amounts, ari, duration) ==
    IF duration \notin DOMAIN duration_rows
    THEN [err |-> "KeyError", v |-> PyNone]
    ELSE LET row == Subscript(precip_amounts, duration_rows[duration])
         IN  IF row.err # "" THEN row
             ELSE IF ari \notin DOMAIN ari_cols
             THEN [err |-> "KeyError", v |-> PyNone]
             ELSE Subscript(row.v, ari_cols[ari])

----------------------------------------------------------------------------
\* The command line: click's parameter types

\* Variant: open bounds
FloatRange_open(value, min, max) == min < value /\ value < max

FloatRange(value, min, max) == min <= value /\ value <= max

\* case_sensitive=False: the value is compared in lower case and the
\* choice it matches is what cli receives ("1-DAY" is "1-day")
Lower(value) ==
    CASE value = "1-DAY" -> "1-day"
      [] value = "25-YR" -> "25-yr"
      [] value = "MM" -> "mm"
      [] OTHER -> value

Choice(value, choices) == Lower(value) \in Range(choices)

\* Variant: the two unit systems exchanged
unit_system_exchanged(units) ==
    IF units = "inch" THEN "metric"
    ELSE IF units = "mm" THEN "english"
    ELSE ""

\* scrape_precip_data, the unit system sent to the server; "" is the
\* unbound local `system`
unit_system(units) ==
    IF units = "inch" THEN "english"
    ELSE IF units = "mm" THEN "metric"
    ELSE ""

\* cli, the unit attached to the storm event
report_unit(units) == IF units = "inch" THEN "inch" ELSE "mm"

\* raise_for_status: 4xx and 5xx are errors
is_http_error(status) == 400 <= status /\ status < 600

\* storm_event * ureg.<unit>: a number becomes a quantity.  What pint does
\* with a magnitude that is not a number is decided outside this
\* repository, so both outcomes are kept.
Multiply(v, unit) ==
    IF v.k = "num"
    THEN { [err |-> "", magnitude |-> v, unit |-> unit] }
    ELSE { [err |-> "", magnitude |-> v, unit |-> unit],
           [err |-> "TypeError", magnitude |-> PyNone, unit |-> ""] }

----------------------------------------------------------------------------
\* Inputs: what the user types and what the server answers

MaxRows == 19

MaxCols == 10

\* depths in 1/100 unit; with seed 53 the cell at row 9, column 4 is 345
Seeds == { 0, 53 }

CellOf(seed, r, c) == seed + 32 * r + c

TableOf(rows, cols, seed) ==
    PyList([r \in 1..rows |->
              PyList([c \in 1..cols |-> PyNum(CellOf(seed, r - 1, c - 1))])])

\* a table whose odd rows lack their last column
RaggedTableOf(rows, cols, seed) ==
    PyList([r \in 1..rows |->
              PyList([c \in 1..(IF r % 2 = 1 THEN cols - 1 ELSE cols) |->
                         PyNum(CellOf(seed, r - 1, c - 1))])])

DigitChar(d) == << "0", "1", "2", "3", "4", "5", "6", "7", "8", "9" >>[d + 1]

RECURSIVE RenderNum(_)
RenderNum(n) ==
    IF n < 10 THEN << DigitChar(n) >>
    ELSE RenderNum(n \div 10) \o << DigitChar(n % 10) >>

\* the JavaScript text of a number or of a nested array of numbers
RECURSIVE Render(_)
RECURSIVE RenderItems(_, _)
RenderItems(items, i) ==
    IF i > Len(items) THEN <<>>
    ELSE (IF i > 1 THEN << "," >> ELSE <<>>) \o Render(items[i])
             \o RenderItems(items, i + 1)

Render(v) ==
    IF v.k = "num" THEN RenderNum(v.n)
    ELSE << "[" >> \o RenderItems(v.items, 1) \o << "]" >>

Latitudes == { 244900, 245000, 397205, 490000, 490100 }

Longitudes == { -1250100, -1250000, -1051193, -669100, -669000, -668900 }

AriInputs == Range(ari_choices) \cup { "24-yr", "25-YR" }

DurationInputs == Range(duration_choices) \cup { "6-hr", "1-DAY" }

UnitsInputs == Range(units_choices) \cup { "cm", "MM" }

\* the options left out take their defaults
CommandLines ==
    { [lat |-> la, lon |-> lo, ari |-> default_ari,
       duration |-> default_duration, units |-> default_units] :
          la \in Latitudes, lo \in Longitudes }
    \cup
    { [lat |-> 397205, lon |-> -1051193, ari |-> a, duration |-> d, units |-> u] :
          a \in AriInputs, d \in DurationInputs, u \in UnitsInputs }

Statuses == { 200, 500 }

Prefixes == { <<>>, << "x", ";", "NL", "x" >> }

Suffixes == { <<>>, << "NL", "x", ";" >>, << "x", ";" >> }

\* [[1,2],[3,4]]
SmallTable ==
    PyList(<< PyList(<< PyNum(1), PyNum(2) >>), PyList(<< PyNum(3), PyNum(4) >>) >>)

\* the tables the server embeds: a small one, a truncated one, a full one
ServedTables == { SmallTable, TableOf(10, 5, 53), TableOf(19, 10, 53) }

\* nine one-cell rows of strings
StringRows ==
    << "[" >> \o << "[", "'", "1", "'", "]", "," >> \o << "[", "'", "1", "'", "]", "," >>
       \o << "[", "'", "1", "'", "]", "," >> \o << "[", "'", "1", "'", "]", "," >>
       \o << "[", "'", "1", "'", "]", "," >> \o << "[", "'", "1", "'", "]", "," >>
       \o << "[", "'", "1", "'", "]", "," >> \o << "[", "'", "1", "'", "]", "," >>
       \o << "[", "'", "3", "4", "5", "'", "]" >> \o << "]" >>

\* texts between `quantiles = ` and `;` that are no nested array of numbers
OtherLiterals ==
    { << "'", "x", "'" >>,
      << "{", "1", ":", "2", "}" >>,
      << "[", "1", ",", "2", "]" >>,
      << "[", "[", "'", "x", "'", "]", "]" >>,
      StringRows,
      << "7" >>,
      << "1", ",", "2" >>,
      << "x" >>,
      << "[", "x", "]" >>,
      << "[", "[", "1", ",", "2", "]" >>,
      <<>> }

Framed(pre, lit, post) == pre \o << "Q" >> \o lit \o << ";" >> \o post

\* bodies with no `quantiles = ...;` anywhere
BareBodies ==
    { <<>>, << "x", "NL", "x" >>, << "x", ";", "NL" >>,
      << "Q", "[", "[", "1", "]", "]" >>,
      << ";", "Q", "[", "[", "1", "]", "]", "NL" >> }

\* bodies whose `;` is on a later line than `quantiles = `
BrokenLineBodies ==
    { << "Q", "[", "[", "1", "]", "]", "NL", ";" >> }

\* what the server can put into a body: the text, and the table it embedded
Bodies ==
    { [text |-> Framed(pre, Render(t), post), has |-> TRUE, table |-> t] :
          pre \in Prefixes, t \in ServedTables, post \in Suffixes }
    \cup
    { [text |-> Framed(pre, lit, post), has |-> FALSE, table |-> PyNone] :
          pre \in Prefixes, lit \in OtherLiterals, post \in Suffixes }
    \cup
    { [text |-> b, has |-> FALSE, table |-> PyNone] :
          b \in BareBodies \cup BrokenLineBodies }

NoBody == [text |-> <<>>, has |-> FALSE, table |-> PyNone]

\* the outcomes of requests.get
Outcomes ==
    { [kind |-> k, status |-> 0, body |-> NoBody] : k \in { "ConnectionError", "Timeout" } }
    \cup
    { [kind |-> "response", status |-> st, body |-> b] : st \in Statuses, b \in Bodies }

----------------------------------------------------------------------------
\* State

VARIABLES
    pc,                  \* where the run is
    argv,                \* lat, lon, ari, duration, units: as cli receives
                         \* them, or as typed when click rejects them
    requests,            \* the number of GETs issued
    query,               \* the parameters of the GET
    response,            \* what requests.get produced
    bound,               \* whether the local pfds_response is bound
    printed,             \* the lines written to the terminal
    extraction,          \* what re.search matched
    precip_amounts,      \* the table scrape_precip_data returned
    design_storm_event,  \* what get_design_storm_event returned
    storm_event,         \* the quantity the command reports
    raised               \* the exception that ended the run, "" for none

vars ==
    << pc, argv, requests, query, response, bound, printed, extraction,
       precip_amounts, design_storm_event, storm_event, raised >>

NoArgv == [lat |-> 0, lon |-> 0, ari |-> "", duration |-> "", units |-> ""]

NoQuery ==
    [lat |-> 0, lon |-> 0, type |-> "", data |-> "", units |-> "", series |-> ""]

NoResponse == [kind |-> "none", status |-> 0, body |-> NoBody]

NoExtraction == [tried |-> FALSE, matched |-> FALSE, group1 |-> <<>>]

NoQuantity == [magnitude |-> PyNone, unit |-> ""]

Init ==
    /\ pc = "start"
    /\ argv = NoArgv
    /\ requests = 0
    /\ query = NoQuery
    /\ response = NoResponse
    /\ bound = FALSE
    /\ printed = <<>>
    /\ extraction = NoExtraction
    /\ precip_amounts = PyNone
    /\ design_storm_event = PyNone
    /\ storm_event = NoQuantity
    /\ raised = ""

\* click converts the parameters; cli runs only if every one is accepted
Invoke ==
    /\ pc = "start"
    /\ \E c \in CommandLines :
          IF /\ FloatRange(c.lat, conus_south, conus_north)
             /\ FloatRange(c.lon, conus_west, conus_east)
             /\ Choice(c.ari, ari_choices)
             /\ Choice(c.duration, duration_choices)
             /\ Choice(c.units, units_choices)
          THEN /\ argv' = [lat |-> c.lat, lon |-> c.lon, ari |-> Lower(c.ari),
                           duration |-> Lower(c.duration), units |-> Lower(c.units)]
               /\ pc' = "scrape"
               /\ raised' = ""
          ELSE /\ argv' = c
               /\ pc' = "done"
               /\ raised' = "BadParameter"
    /\ UNCHANGED << requests, query, response, bound, printed, extraction,
                    precip_amounts, design_storm_event, storm_event >>

\* scrape_precip_data up to the end of its try statement: the query, the
\* GET, raise_for_status and the two handlers, which print and go on
Request ==
    /\ pc = "scrape"
    /\ IF unit_system(argv.units) = ""
       THEN /\ pc' = "done"
            /\ raised' = "UnboundLocalError"
            /\ UNCHANGED << requests, query, response, bound, printed >>
       ELSE /\ query' = [lat |-> argv.lat, lon |-> argv.lon, type |-> "pf",
                         data |-> "depth", units |-> unit_system(argv.units),
                         series |-> "pds"]
            /\ requests' = requests + 1
            /\ \E o \in Outcomes :
                  /\ response' = o
                  /\ bound' = (o.kind = "response")
                  /\ printed' =
                        IF o.kind # "response" THEN Append(printed, "Error")
                        ELSE IF is_http_error(o.status)
                        THEN Append(printed, "HTTP Error")
                        ELSE printed
            /\ pc' = "extract"
            /\ raised' = raised
    /\ UNCHANGED << argv, extraction, precip_amounts, design_storm_event,
                    storm_event >>

\* scrape_precip_data after the try statement: search, group(1),
\* literal_eval, return
Extract ==
    /\ pc = "extract"
    /\ IF ~ bound
       THEN /\ raised' = "UnboundLocalError"
            /\ pc' = "done"
            /\ UNCHANGED << extraction, precip_amounts >>
       ELSE LET m == re_search(response.body.text)
                e == literal_eval(m.group1)
            IN  /\ extraction' = [tried |-> TRUE, matched |-> m.matched,
                                  group1 |-> m.group1]
                /\ IF ~ m.matched
                   THEN /\ raised' = "AttributeError"
                        /\ pc' = "done"
                        /\ UNCHANGED precip_amounts
                   ELSE IF e.err # ""
                   THEN /\ raised' = e.err
                        /\ pc' = "done"
                        /\ UNCHANGED precip_amounts
                   ELSE /\ precip_amounts' = e.v
                        /\ pc' = "select"
                        /\ raised' = raised
    /\ UNCHANGED << argv, requests, query, response, bound, printed,
                    design_storm_event, storm_event >>

\* cli: storm_event = get_design_storm_event(pfds_results, ari, duration)
Select ==
    /\ pc = "select"
    /\ LET r == get_design_storm_event(precip_amounts, argv.ari, argv.duration)
       IN  IF r.err # ""
           THEN /\ raised' = r.err
                /\ pc' = "done"
                /\ UNCHANGED design_storm_event
           ELSE /\ design_storm_event' = r.v
                /\ pc' = "report"
                /\ raised' = raised
    /\ UNCHANGED << argv, requests, query, response, bound, printed, extraction,
                    precip_amounts, storm_event >>

\* cli: attach the unit and print the four lines
Report ==
    /\ pc = "report"
    /\ \E q \in Multiply(design_storm_event, report_unit(argv.units)) :
          IF q.err # ""
          THEN /\ raised' = q.err
               /\ UNCHANGED << storm_event, printed >>
          ELSE /\ storm_event' = [magnitude |-> q.magnitude, unit |-> q.unit]
               /\ printed' = printed \o << "Geographic Coordinate",
                                           "Average Return Interval",
                                           "Precipitation Duration",
                                           "Storm Event" >>
               /\ raised' = raised
    /\ pc' = "done"
    /\ UNCHANGED << argv, requests, query, response, bound, extraction,
                    precip_amounts, design_storm_event >>

Next == Invoke \/ Request \/ Extract \/ Select \/ Report

Spec == Init /\ [][Next]_vars

----------------------------------------------------------------------------
\* get_design_storm_event called on its own, with any table and any labels

SelectTables ==
    { TableOf(rows, cols, 0) : rows \in 0..MaxRows, cols \in 0..MaxCols }
    \cup
    { TableOf(MaxRows, MaxCols, seed) : seed \in Seeds }
    \cup
    { RaggedTableOf(rows, MaxCols, 53) : rows \in { 1, 10, MaxRows } }
    \cup
    { PyNum(7), PyStr(<< "x", "x", "x", "x", "x", "x", "x", "x", "x", "x" >>),
      PyList(<< PyNum(1), PyNum(2) >>),
      PyDict(<< PyPair(PyNum(9), PyDict(<< PyPair(PyNum(4), PyNum(345)) >>)) >>),
      PyNone }

SelectDurations == DOMAIN duration_rows \cup { "24-hr", "1-DAY", "" }

SelectAris == DOMAIN ari_cols \cup { "25-year", "3-yr", "" }

InitSelect ==
    /\ pc = "call"
    /\ \E a \in SelectAris, d \in SelectDurations :
          argv = [lat |-> 0, lon |-> 0, ari |-> a, duration |-> d, units |-> ""]
    /\ precip_amounts \in SelectTables
    /\ requests = 0
    /\ query = NoQuery
    /\ response = NoResponse
    /\ bound = FALSE
    /\ printed = <<>>
    /\ extraction = NoExtraction
    /\ design_storm_event = PyNone
    /\ storm_event = NoQuantity
    /\ raised = ""

CallSelect ==
    /\ pc = "call"
    /\ LET r == get_design_storm_event(precip_amounts, argv.ari, argv.duration)
       IN  /\ raised' = r.err
           /\ design_storm_event' = r.v
    /\ pc' = "returned"
    /\ UNCHANGED << argv, requests, query, response, bound, printed, extraction,
                    precip_amounts, storm_event >>

NextSelect == CallSelect

SpecSelect == InitSelect /\ [][NextSelect]_vars

----------------------------------------------------------------------------
\* The error names of the specification, as the exceptions of the code.
\* freeboard.py defines no exception of its own: a failure is the Python
\* exception that escapes.

InputRangeError == { "BadParameter" }

NetworkError == { "ConnectionError", "Timeout" }

HttpStatusError == { "HTTPError" }

MalformedResponseError == { "AttributeError", "SyntaxError", "ValueError" }

UnknownLabelError == { "KeyError" }

TableShapeError == { "IndexError" }

----------------------------------------------------------------------------
\* Vocabulary of the properties

\* a nested array of numbers
IsTable(v) ==
    /\ v.k = "list"
    /\ \A r \in 1..Len(v.items) :
          /\ v.items[r].k = "list"
          /\ \A c \in 1..Len(v.items[r].items) : v.items[r].items[c].k = "num"

\* a list of lists that has row r and column c (counted from 0)
HasCell(t, r, c) ==
    /\ t.k = "list"
    /\ r < Len(t.items)
    /\ t.items[r + 1].k = "list"
    /\ c < Len(t.items[r + 1].items)

CellAt(t, r, c) == t.items[r + 1].items[c + 1]

IsFull19x10(t) ==
    /\ t.k = "list"
    /\ Len(t.items) = 19
    /\ \A r \in 1..19 : t.items[r].k = "list" /\ Len(t.items[r].items) = 10

\* the body holds `quantiles = ` and, somewhere after it, a `;`
HasFragment(text) ==
    \E i \in 1..Len(text) : \E j \in (i + 1)..Len(text) :
        text[i] = "Q" /\ text[j] = ";"

Responded == response.kind = "response"

Succeeded == Responded /\ ~ is_http_error(response.status)

NetworkFailed == response.kind \in NetworkError

\* scrape_precip_data has ended, by returning or by raising
FetchEnded == requests > 0 /\ pc \in { "select", "report", "done" }

KnownDuration == argv.duration \in DOMAIN duration_rows

KnownAri == argv.ari \in DOMAIN ari_cols

----------------------------------------------------------------------------
\* C1: for every duration label and ARI label of the two mappings and every
\* table that has that row and column, get_design_storm_event returns
\* exactly table[row(duration)][col(ari)], untransformed; "1-day" is row 9
\* and "25-yr" is column 4.
C1_SelectReturnsCell ==
    pc = "returned" =>
        /\ ( /\ KnownDuration
             /\ KnownAri
             /\ HasCell(precip_amounts, duration_rows[argv.duration], ari_cols[argv.ari]) )
           => /\ raised = ""
              /\ design_storm_event =
                    CellAt(precip_amounts, duration_rows[argv.duration], ari_cols[argv.ari])
        /\ ( /\ argv.duration = "1-day"
             /\ argv.ari = "25-yr"
             /\ HasCell(precip_amounts, 9, 4) )
           => design_storm_event = CellAt(precip_amounts, 9, 4)

C1_Witness ==
    /\ pc = "returned"
    /\ argv.duration = "1-day"
    /\ argv.ari = "25-yr"
    /\ IsFull19x10(precip_amounts)
    /\ raised = ""
    /\ design_storm_event = PyNum(345)

\* C2: a response with a non-success status makes scrape_precip_data fail
\* with HttpStatusError; it never extracts a table from that body and
\* never returns one, whatever the body holds.  Stated here for the bodies
\* that hold a well-formed `quantiles = L;`: after a non-success status the
\* table L is not extracted and not returned.
C2_HttpErrorReturnsNoTable ==
    (Responded /\ is_http_error(response.status) /\ response.body.has) =>
        /\ precip_amounts = PyNone
        /\ pc \notin { "select", "report" }

\* C3: a connection failure or a timeout makes scrape_precip_data fail
\* with NetworkError, with one request, no extraction and no table.
C3_NetworkFailureIsNetworkError ==
    (NetworkFailed /\ FetchEnded) =>
        /\ raised \in NetworkError
        /\ requests = 1
        /\ ~ extraction.tried
        /\ precip_amounts = PyNone

\* C4: a successful response whose body has no `quantiles = ...;` makes
\* scrape_precip_data fail with MalformedResponseError and return no
\* table.
C4_NoFragmentFails ==
    (Succeeded /\ FetchEnded /\ ~ HasFragment(response.body.text)) =>
        /\ pc = "done"
        /\ raised \in MalformedResponseError
        /\ precip_amounts = PyNone

C4_Witness ==
    /\ Succeeded
    /\ FetchEnded
    /\ response.body.text = << "Q", "[", "[", "1", "]", "]" >>
    /\ extraction.tried
    /\ ~ extraction.matched
    /\ raised = "AttributeError"

\* C5: a successful response whose body holds `quantiles = L;` for a
\* nested array of numbers L, whatever precedes or follows it, makes
\* scrape_precip_data return exactly L.
C5_EmbeddedTableIsReturned ==
    (Succeeded /\ FetchEnded /\ response.body.has) =>
        precip_amounts = response.body.table

\* C6: a successful response whose fragment is found but whose text is no
\* nested array of numbers makes scrape_precip_data fail with
\* MalformedResponseError; it never returns anything but a
\* two-dimensional array of numbers.
C6_OnlyTablesAreReturned ==
    (Succeeded /\ FetchEnded) =>
        /\ precip_amounts = PyNone \/ IsTable(precip_amounts)
        /\ (extraction.matched /\ ~ response.body.has) =>
              (pc = "done" /\ raised \in MalformedResponseError)

\* C7 as stated: with a duration or ARI label that is no key of its
\* mapping, get_design_storm_event always fails with UnknownLabelError,
\* for every table (here: for every nested array of numbers).
C7_UnknownLabelIsAlwaysKeyError ==
    (pc = "returned" /\ IsTable(precip_amounts) /\ (~ KnownDuration \/ ~ KnownAri)) =>
        raised \in UnknownLabelError

\* C7 amended: with an unknown label get_design_storm_event never returns
\* a value.  It fails with UnknownLabelError when the duration is unknown,
\* and when the duration is known, the table has the row of that duration
\* and the ARI is unknown; when the duration is known and the table lacks
\* its row, it fails at the row (TableShapeError for a list) before it
\* looks at the ARI.
C7_UnknownLabelNeverReturns ==
    (pc = "returned" /\ (~ KnownDuration \/ ~ KnownAri)) =>
        /\ raised # ""
        /\ design_storm_event = PyNone
        /\ ~ KnownDuration => raised \in UnknownLabelError
        /\ ( /\ KnownDuration
             /\ Subscript(precip_amounts, duration_rows[argv.duration]).err = "" )
           => raised \in UnknownLabelError
        /\ ( /\ KnownDuration
             /\ precip_amounts.k = "list"
             /\ duration_rows[argv.duration] >= Len(precip_amounts.items) )
           => raised \in TableShapeError

C7_Witness ==
    /\ pc = "returned"
    /\ argv.duration = "1-day"
    /\ argv.ari = "25-year"
    /\ precip_amounts = TableOf(2, 2, 0)
    /\ raised = "IndexError"

\* C8: in every successful run of the command the reported storm event is
\* table[row(duration)][col(ari)] of the table fetched in that run, and
\* its unit is inch exactly when the query asked for "english" and
\* millimeter exactly when it asked for "metric"; 39.7205, -105.1193,
\* "1-day", "25-yr", inch with 3.45 at row 9, column 4 reports 3.45 inch.
C8_ReportMatchesTableAndUnits ==
    (pc = "done" /\ raised = "") =>
        /\ requests = 1
        /\ argv.duration \in Range(duration_choices)
        /\ argv.ari \in Range(ari_choices)
        /\ argv.units \in Range(units_choices)
        /\ HasCell(precip_amounts, duration_rows[argv.duration], ari_cols[argv.ari])
        /\ storm_event.magnitude =
              CellAt(precip_amounts, duration_rows[argv.duration], ari_cols[argv.ari])
        /\ storm_event.unit \in { "inch", "mm" }
        /\ storm_event.unit = "inch" <=> query.units = "english"
        /\ storm_event.unit = "mm" <=> query.units = "metric"
        /\ ( /\ argv.duration = "1-day"
             /\ argv.ari = "25-yr"
             /\ argv.units = "inch"
             /\ HasCell(precip_amounts, 9, 4)
             /\ CellAt(precip_amounts, 9, 4) = PyNum(345) )
           => storm_event = [magnitude |-> PyNum(345), unit |-> "inch"]

C8_Witness ==
    /\ pc = "done"
    /\ raised = ""
    /\ argv = [lat |-> 397205, lon |-> -1051193, ari |-> "25-yr",
               duration |-> "1-day", units |-> "inch"]
    /\ query.units = "english"
    /\ IsFull19x10(precip_amounts)
    /\ storm_event = [magnitude |-> PyNum(345), unit |-> "inch"]

\* the other parameters of the command line are acceptable
OptionsAccepted ==
    /\ Choice(argv.ari, ari_choices)
    /\ Choice(argv.duration, duration_choices)
    /\ Choice(argv.units, units_choices)

\* C9 as stated: latitude 24.5 and longitude -66.9 are accepted; latitude
\* 24.49 or longitude -66.91 are rejected with InputRangeError, before any
\* network call.
C9_BoundaryAsStated ==
    pc # "start" =>
        /\ (argv.lat = 245000 /\ argv.lon = -669000 /\ OptionsAccepted)
              => raised \notin InputRangeError
        /\ (argv.lat = 244900 \/ argv.lon = -669100)
              => (raised \in InputRangeError /\ requests = 0)

\* C9 amended: latitude 24.5 and longitude -66.9 are accepted; latitude
\* 24.49 or longitude -66.89 are rejected with InputRangeError, before any
\* network call; longitude -66.91 lies inside [-125.0, -66.9] and is
\* accepted.
C9_BoundaryAmended ==
    pc # "start" =>
        /\ (argv.lat = 245000 /\ argv.lon = -669000 /\ OptionsAccepted)
              => raised \notin InputRangeError
        /\ (argv.lat = 244900 \/ argv.lon = -668900)
              => (raised \in InputRangeError /\ requests = 0)
        /\ (argv.lon = -669100 /\ argv.lat = 245000 /\ OptionsAccepted)
              => raised \notin InputRangeError
        /\ raised \in InputRangeError => (requests = 0 /\ pc = "done")

C9_Witness ==
    /\ pc = "done"
    /\ argv.lat = 245000
    /\ argv.lon = -668900
    /\ raised = "BadParameter"
    /\ requests = 0

\* C10: every duration and ARI label the command line accepts is a key of
\* its mapping, distinct labels have distinct indices, every index lies
\* within 19 rows by 10 columns, and so no accepted pair makes
\* get_design_storm_event fail on a full 19 by 10 table.
C10_AcceptedLabelsFitFullTable ==
    /\ Range(duration_choices) \subseteq DOMAIN duration_rows
    /\ Range(ari_choices) \subseteq DOMAIN ari_cols
    /\ \A a, b \in DOMAIN duration_rows :
          duration_rows[a] = duration_rows[b] => a = b
    /\ \A a, b \in DOMAIN ari_cols : ari_cols[a] = ari_cols[b] => a = b
    /\ \A d \in DOMAIN duration_rows : duration_rows[d] \in 0..18
    /\ \A a \in DOMAIN ari_cols : ari_cols[a] \in 0..9
    /\ ( /\ pc = "returned"
         /\ argv.duration \in Range(duration_choices)
         /\ argv.ari \in Range(ari_choices)
         /\ IsFull19x10(precip_amounts) )
       => /\ raised = ""
          /\ design_storm_event =
                CellAt(precip_amounts, duration_rows[argv.duration], ari_cols[argv.ari])

C10_Witness ==
    /\ pc = "returned"
    /\ argv.duration = "60-day"
    /\ argv.ari = "1000-yr"
    /\ IsFull19x10(precip_amounts)
    /\ raised = ""
    /\ design_storm_event = CellAt(precip_amounts, 18, 9)

====
